---- MODULE Spec2Model ----
(***************************************************************************)
(* A model of tsavs_tot.py: MPEG-TS packet field access, PES timestamp     *)
(* decoding, PSI/SI section reassembly, PAT and TOT decoding, the stream   *)
(* analyzer (video PID detection, frame index) and the TOT correlator      *)
(* (find_tot_near_frame), together with the run of main.                   *)
(*                                                                         *)
(* Conventions.                                                            *)
(*  - A packet is a sequence of bytes; Python's packet[k] is B(p, k).      *)
(*  - Python's None is the empty tuple, a value x that may be None is      *)
(*    carried as <<x>> (Some(x)); Val takes it out again.                  *)
(*  - Python integers are unbounded. The 33-bit timestamp arithmetic of    *)
(*    extract_pts_dts is carried out on sets of bit positions (a "wide"    *)
(*    integer), so that no width is lost; IntOf converts to an integer     *)
(*    where the stream level compares and subtracts.                       *)
(*  - A datetime is <<ordinal day, second of day, microsecond>>.           *)
(***************************************************************************)
EXTENDS Integers, Sequences, FiniteSets, TLC

(***************************************************************************)
(* Program constants (tsavs_tot.py lines 22-31).                           *)
(***************************************************************************)
TS_PACKET_SIZE == 188
SYNC_BYTE == 71
TOT_PID == 20
TOT_TABLE_ID == 115
PAT_PID == 0
PAT_TABLE_ID == 0
CLOCK_FREQ == 90000
VIDEO_PID_MIN == 256
VIDEO_PID_MAX == 511

(***************************************************************************)
(* Option values and bit-level arithmetic.                                 *)
(***************************************************************************)
None == << >>
Some(x) == << x >>
Val(o) == o[1]

\* Python's packet[k] (0-based) on a 1-based sequence.
B(p, k) == p[k + 1]

\* Python's p[a:] and p[:n] slices.
SliceFrom(p, a) == SubSeq(p, a + 1, Len(p))
SliceTo(p, n) == SubSeq(p, 1, IF n < Len(p) THEN n ELSE Len(p))

\* The set of bit positions set in the non-negative integer n (n < 2^31).
Bits(n) == { i \in 0..30 : (n \div (2 ^ i)) % 2 = 1 }

\* The set of bit positions set in the byte b.
ByteBits(b) == { i \in 0..7 : (b \div (2 ^ i)) % 2 = 1 }

RECURSIVE IntOf(_)
\* The integer whose set bits are S.
IntOf(S) ==
    IF S = {} THEN 0
    ELSE LET b == CHOOSE x \in S : TRUE
         IN  (2 ^ b) + IntOf(S \ {b})

\* Wide (set-of-bits) forms of &, |, << and >>.
WAnd(S, T) == S \cap T
WOr(S, T) == S \cup T
WShl(S, k) == { b + k : b \in S }
WShr(S, k) == { b - k : b \in { x \in S : x >= k } }

RECURSIVE BAnd(_, _)
\* Python's a & m on non-negative integers, bit by bit.
BAnd(a, m) ==
    IF a = 0 \/ m = 0 THEN 0
    ELSE (IF a % 2 = 1 /\ m % 2 = 1 THEN 1 ELSE 0) + 2 * BAnd(a \div 2, m \div 2)

RECURSIVE BOr(_, _)
\* Python's a | b on non-negative integers, bit by bit.
BOr(a, b) ==
    IF a = 0 THEN b
    ELSE IF b = 0 THEN a
    ELSE (IF a % 2 = 1 \/ b % 2 = 1 THEN 1 ELSE 0) + 2 * BOr(a \div 2, b \div 2)

Shl(a, k) == a * (2 ^ k)
Shr(a, k) == a \div (2 ^ k)

(***************************************************************************)
(* TSPacketUtil (lines 40-122).                                            *)
(***************************************************************************)
get_pid(packet) == BOr(Shl(BAnd(B(packet, 1), 31), 8), B(packet, 2))

\* A planted fault of has_payload_start: every packet starts a payload unit.
has_payload_start_always(packet) == TRUE

has_payload_start(packet) == BAnd(B(packet, 1), 64) # 0

has_adaptation_field(packet) == BAnd(B(packet, 3), 32) # 0

get_pes_offset(packet) ==
    IF has_adaptation_field(packet) THEN 4 + 1 + B(packet, 4) ELSE 4

\* A planted fault of extract_pts_dts: the first byte masked with 0x0F, which
\* lets its marker bit into the value.
extract_pts_dts_mask(p, pos) ==
    IF pos + 5 > Len(p) THEN None
    ELSE Some(
        WOr(WOr(WOr(WOr(
            WShl(WAnd(ByteBits(B(p, pos)), ByteBits(15)), 29),
            WShl(WAnd(ByteBits(B(p, pos + 1)), ByteBits(255)), 22)),
            WShl(WAnd(ByteBits(B(p, pos + 2)), ByteBits(254)), 14)),
            WShl(WAnd(ByteBits(B(p, pos + 3)), ByteBits(255)), 7)),
            WShr(WAnd(ByteBits(B(p, pos + 4)), ByteBits(254)), 1)))

\* extract_pts_dts (lines 93-100): None, or the wide 33-bit value.
extract_pts_dts(p, pos) ==
    IF pos + 5 > Len(p) THEN None
    ELSE Some(
        WOr(WOr(WOr(WOr(
            WShl(WAnd(ByteBits(B(p, pos)), ByteBits(14)), 29),
            WShl(WAnd(ByteBits(B(p, pos + 1)), ByteBits(255)), 22)),
            WShl(WAnd(ByteBits(B(p, pos + 2)), ByteBits(254)), 14)),
            WShl(WAnd(ByteBits(B(p, pos + 3)), ByteBits(255)), 7)),
            WShr(WAnd(ByteBits(B(p, pos + 4)), ByteBits(254)), 1)))

\* The extracted value as an integer (None stays None).
ExtractInt(p, pos) ==
    LET w == extract_pts_dts(p, pos)
    IN  IF w = None THEN None ELSE Some(IntOf(Val(w)))

\* parse_pts_dts (lines 68-116): <<pts, dts>>, each None or Some(integer).
parse_pts_dts(packet) ==
    IF ~has_payload_start(packet) THEN <<None, None>>
    ELSE LET offset == get_pes_offset(packet) IN
    IF offset + 9 > Len(packet) THEN <<None, None>>
    ELSE IF B(packet, offset) # 0 \/ B(packet, offset + 1) # 0
            \/ B(packet, offset + 2) # 1 THEN <<None, None>>
    ELSE LET flags_2 == B(packet, offset + 7)
             pts_dts_flag == BAnd(Shr(flags_2, 6), 3)
             pes_header_data_length == B(packet, offset + 8)
             current_pos == offset + 9
         IN
    IF pts_dts_flag = 0 THEN <<None, None>>
    ELSE IF current_pos + pes_header_data_length > Len(packet)
         THEN <<None, None>>
    ELSE LET hasPts == BAnd(pts_dts_flag, 2) # 0
             hasDts == BAnd(pts_dts_flag, 1) # 0
             pts == IF hasPts THEN ExtractInt(packet, current_pos) ELSE None
             pos2 == IF hasPts THEN current_pos + 5 ELSE current_pos
             dts == IF hasDts THEN ExtractInt(packet, pos2) ELSE None
         IN
    IF hasPts /\ pts = None THEN <<None, None>>
    ELSE IF hasDts /\ dts = None /\ pts_dts_flag = 3 THEN <<None, None>>
    ELSE <<pts, dts>>

\* parse_pts (lines 118-122).
parse_pts(packet) == parse_pts_dts(packet)[1]

(***************************************************************************)
(* datetime and timedelta, as parse_tot (line 174) and find_tot_near_frame *)
(* (lines 315-316, 319-320) use them.                                      *)
(***************************************************************************)
\* Python's int() of a quotient a / b with b > 0: truncation towards zero.
TruncDiv(a, b) == IF a >= 0 THEN a \div b ELSE -((-a) \div b)

IsLeap(year) == year % 4 = 0 /\ (year % 100 # 0 \/ year % 400 = 0)

DaysInMonth(year, month) ==
    IF month = 2 THEN (IF IsLeap(year) THEN 29 ELSE 28)
    ELSE IF month \in {4, 6, 9, 11} THEN 30 ELSE 31

DaysBeforeMonth(year, month) ==
    LET cum == <<0, 31, 59, 90, 120, 151, 181, 212, 243, 273, 304, 334>>
    IN  cum[month] + (IF month > 2 /\ IsLeap(year) THEN 1 ELSE 0)

\* The proleptic Gregorian ordinal of a valid date (1 is 0001-01-01).
YmdToOrd(year, month, day) ==
    LET y == year - 1
    IN  y * 365 + (y \div 4) - (y \div 100) + (y \div 400)
        + DaysBeforeMonth(year, month) + day

\* A planted fault of DateTime: the time of day is not validated.
DateTimeAnyTime(year, month, day, hour, minute, second) ==
    IF /\ year >= 1 /\ year <= 9999
       /\ month >= 1 /\ month <= 12
       /\ day >= 1 /\ day <= DaysInMonth(year, month)
    THEN Some(<<YmdToOrd(year, month, day), hour * 3600 + minute * 60 + second, 0>>)
    ELSE None

\* datetime(year, month, day, hour, minute, second): None where Python raises
\* ValueError, else Some(<<ordinal, second of day, microsecond>>).
DateTime(year, month, day, hour, minute, second) ==
    IF /\ year >= 1 /\ year <= 9999
       /\ month >= 1 /\ month <= 12
       /\ day >= 1 /\ day <= DaysInMonth(year, month)
       /\ hour >= 0 /\ hour <= 23
       /\ minute >= 0 /\ minute <= 59
       /\ second >= 0 /\ second <= 59
    THEN Some(<<YmdToOrd(year, month, day), hour * 3600 + minute * 60 + second, 0>>)
    ELSE None

\* t + timedelta(seconds = d / CLOCK_FREQ) for a datetime t and a tick count d
\* (lines 315-316 and 319-320). The float quotient becomes whole seconds and
\* microseconds rounded to the nearest, as timedelta does; d * 100 / 9 is never
\* half-way between two microseconds.
PlusTicks(t, d) ==
    LET q == d \div CLOCK_FREQ
        r == d % CLOCK_FREQ
        us == t[3] + ((200 * r + 9) \div 18)
        secs == t[2] + q + (us \div 1000000)
    IN  <<t[1] + (secs \div 86400), secs % 86400, us % 1000000>>

(***************************************************************************)
(* TOTParser.parse_tot (lines 133-176).                                    *)
(***************************************************************************)
Bcd(b) == (Shr(b, 4) * 10) + BAnd(b, 15)

\* A planted fault of tot_datetime: k is 1 for m_prime = 15 only.
tot_datetime_k(mjd, hour_bcd, min_bcd, sec_bcd) ==
    LET y_prime == TruncDiv(mjd * 100 - 1507820, 36525)
        yd == TruncDiv(y_prime * 1461, 4)
        m_prime == TruncDiv((mjd - yd) * 10000 - 149561000, 306001)
        md == TruncDiv(m_prime * 306001, 10000)
        k == IF m_prime = 15 THEN 1 ELSE 0
    IN  DateTime(y_prime + k + 1900, m_prime - 1 - k * 12,
                 mjd - 14956 - yd - md,
                 Bcd(hour_bcd), Bcd(min_bcd), Bcd(sec_bcd))

\* Lines 156-176: the date-time of MJD mjd and the three BCD bytes.
tot_datetime(mjd, hour_bcd, min_bcd, sec_bcd) ==
    LET hour == Bcd(hour_bcd)
        minute == Bcd(min_bcd)
        second == Bcd(sec_bcd)
        \* int((mjd - 15078.2) / 365.25)
        y_prime == TruncDiv(mjd * 100 - 1507820, 36525)
        \* int(y_prime * 365.25)
        yd == TruncDiv(y_prime * 1461, 4)
        \* int((mjd - 14956.1 - int(y_prime * 365.25)) / 30.6001)
        m_prime == TruncDiv((mjd - yd) * 10000 - 149561000, 306001)
        \* int(m_prime * 30.6001)
        md == TruncDiv(m_prime * 306001, 10000)
        day == mjd - 14956 - yd - md
        k == IF m_prime \in {14, 15} THEN 1 ELSE 0
        year == y_prime + k + 1900
        month == m_prime - 1 - k * 12
    IN  DateTime(year, month, day, hour, minute, second)

parse_tot(packet) ==
    IF get_pid(packet) # TOT_PID THEN None
    ELSE IF ~has_payload_start(packet) THEN None
    ELSE LET offset0 == get_pes_offset(packet) IN
    IF offset0 >= Len(packet) THEN None
    ELSE LET pointer == B(packet, offset0)
             offset == offset0 + 1 + pointer
         IN
    IF offset + 8 > Len(packet) THEN None
    ELSE IF B(packet, offset) # TOT_TABLE_ID THEN None
    ELSE tot_datetime(BOr(Shl(B(packet, offset + 3), 8), B(packet, offset + 4)),
                      B(packet, offset + 5), B(packet, offset + 6),
                      B(packet, offset + 7))

(***************************************************************************)
(* parse_pat_section (lines 183-193).                                      *)
(***************************************************************************)
RECURSIVE PatLoop(_, _, _)
\* The while loop of lines 188-192.
PatLoop(section_data, section_offset, service_ids) ==
    IF section_offset + 4 <= Len(section_data) - 4
    THEN LET program_number ==
                 BOr(Shl(B(section_data, section_offset), 8),
                     B(section_data, section_offset + 1))
         IN  PatLoop(section_data, section_offset + 4,
                     IF program_number # 0
                     THEN Append(service_ids, program_number)
                     ELSE service_ids)
    ELSE service_ids

parse_pat_section(section_data) ==
    IF Len(section_data) < 8 THEN << >>
    ELSE PatLoop(section_data, 8, << >>)

(***************************************************************************)
(* SectionCollector (lines 200-226). A collector is a record of its three  *)
(* fields; add_packet gives the collector afterwards and the value         *)
(* returned.                                                               *)
(***************************************************************************)
NewCollector == [buffer |-> << >>, collecting |-> FALSE, section_length |-> 0]

\* A planted fault of CollectorEmit: the collector stays collecting.
CollectorEmitStay(c) ==
    IF c.collecting /\ c.section_length > 0 /\ Len(c.buffer) >= c.section_length
    THEN [c |-> c, ret |-> Some(SliceTo(c.buffer, c.section_length))]
    ELSE [c |-> c, ret |-> None]

\* Lines 222-226: the completion test after the packet's bytes were taken.
CollectorEmit(c) ==
    IF c.collecting /\ c.section_length > 0 /\ Len(c.buffer) >= c.section_length
    THEN [c |-> [c EXCEPT !.collecting = FALSE],
          ret |-> Some(SliceTo(c.buffer, c.section_length))]
    ELSE [c |-> c, ret |-> None]

add_packet(self, packet) ==
    IF has_payload_start(packet)
    THEN LET c1 == [self EXCEPT !.buffer = << >>, !.collecting = TRUE]
             payload_offset0 == get_pes_offset(packet)
         IN
         IF payload_offset0 >= Len(packet) THEN [c |-> c1, ret |-> None]
         ELSE LET pointer == B(packet, payload_offset0)
                  payload_offset == payload_offset0 + 1 + pointer
              IN
         IF payload_offset >= Len(packet) THEN [c |-> c1, ret |-> None]
         ELSE LET c2 == IF payload_offset + 3 <= Len(packet)
                        THEN [c1 EXCEPT !.section_length =
                                 BOr(Shl(BAnd(B(packet, payload_offset + 1), 15), 8),
                                     B(packet, payload_offset + 2)) + 3]
                        ELSE c1
              IN  CollectorEmit([c2 EXCEPT !.buffer =
                                    c2.buffer \o SliceFrom(packet, payload_offset)])
    ELSE IF self.collecting
    THEN LET payload_offset == get_pes_offset(packet)
         IN  CollectorEmit(IF payload_offset < Len(packet)
                           THEN [self EXCEPT !.buffer =
                                    self.buffer \o SliceFrom(packet, payload_offset)]
                           ELSE self)
    ELSE CollectorEmit(self)

(***************************************************************************)
(* Inputs: transport packets built field by field, after the layout the    *)
(* accessors above read (header bytes 0-3, optional adaptation field,      *)
(* payload, stuffing up to TS_PACKET_SIZE).                                *)
(***************************************************************************)
Fill(n, b) == [k \in 1..n |-> b]

\* A packet with first byte `first`, PID pid, payload_unit_start pusi, an
\* adaptation field of declared length Val(af) (none when af = None) and the
\* payload bytes, stuffed with 0xFF and cut to TS_PACKET_SIZE bytes.
TsPacket(first, pid, pusi, af, payload) ==
    LET header == << first,
                     (IF pusi THEN 64 ELSE 0) + (pid \div 256),
                     pid % 256,
                     16 + (IF af = None THEN 0 ELSE 32) >>
        afBytes == IF af = None THEN << >>
                   ELSE IF Val(af) = 0 THEN << 0 >>
                   ELSE << Val(af), 0 >> \o Fill(Val(af) - 1, 255)
    IN  SliceTo(header \o afBytes \o payload \o Fill(TS_PACKET_SIZE, 255),
                TS_PACKET_SIZE)

\* The 5-byte marker-interleaved form of the wide 33-bit value w: a 4-bit
\* prefix, then 3 + 8 + 7 + 8 + 7 value bits with the marker bits m1, m2, m3
\* closing the first, third and fifth byte.
EncodeTs(prefix, w, m1, m2, m3) ==
    << prefix * 16 + IntOf(WShr(WAnd(w, 30..32), 30)) * 2 + m1,
       IntOf(WShr(WAnd(w, 22..29), 22)),
       IntOf(WShr(WAnd(w, 15..21), 15)) * 2 + m2,
       IntOf(WShr(WAnd(w, 7..14), 7)),
       IntOf(WAnd(w, 0..6)) * 2 + m3 >>

\* A PES header: start code (spoiled when ~startOk), stream id, length, the
\* flag bytes with pts_dts_flags = flags, PES_header_data_length = hdl, and
\* two timestamp fields holding pts and dts.
PesPayload(startOk, flags, hdl, pts, dts) ==
    << 0, 0, IF startOk THEN 1 ELSE 0, 224, 0, 0, 128, flags * 64, hdl >>
    \o EncodeTs(IF flags = 3 THEN 3 ELSE 2, Bits(pts), 1, 1, 1)
    \o EncodeTs(1, Bits(dts), 1, 1, 1)

\* A start-of-payload packet on PID pid carrying PTS pts.
VideoPacket(first, pid, pts) ==
    TsPacket(first, pid, TRUE, None, PesPayload(TRUE, 2, 5, pts, 0))

\* A TOT section (table id tid, MJD mjd, three BCD bytes) in one packet.
TotPacket(pusi, tid, mjd, h, m, s) ==
    TsPacket(SYNC_BYTE, TOT_PID, pusi, None,
             << 0, tid, 112, 11, mjd \div 256, mjd % 256, h, m, s,
                240, 0, 0, 0, 0, 0 >>)

\* A TOT section behind an adaptation field af and a pointer_field of
\* `pointer` filler bytes, in one packet.
TotPacketAt(pusi, af, pointer, tid, mjd, h, m, s) ==
    TsPacket(SYNC_BYTE, TOT_PID, pusi, af,
             << pointer >> \o Fill(pointer, 255)
             \o << tid, 112, 11, mjd \div 256, mjd % 256, h, m, s,
                   240, 0, 0, 0, 0, 0 >>)

RECURSIVE PatEntries(_)
PatEntries(numbers) ==
    IF numbers = << >> THEN << >>
    ELSE << Head(numbers) \div 256, Head(numbers) % 256, 225, 240 >>
         \o PatEntries(Tail(numbers))

\* A PAT section (table id tid) listing the program numbers, in one packet.
PatPacket(tid, numbers) ==
    LET n == Len(numbers)
    IN  TsPacket(SYNC_BYTE, PAT_PID, TRUE, None,
                 << 0, tid, 176, 5 + 4 * n + 4, 0, 1, 193, 0, 0 >>
                 \o PatEntries(numbers) \o << 17, 34, 51, 68 >>)

\* A section piece for the collector: a packet on the PAT PID whose payload is
\* `data`, after an adaptation field af; no pointer_field is added here.
SecPacket(pusi, af, data) == TsPacket(SYNC_BYTE, PAT_PID, pusi, af, data)

\* n bytes that differ from place to place, starting from seed.
Pattern(n, seed) == [k \in 1..n |-> (seed + 7 * k) % 251]

\* The bytes of the packet a descriptor stands for. The input file is a
\* sequence of descriptors; every scan reads Bytes of them.
Bytes(d) ==
    CASE d.k = "pes" ->
           TsPacket(d.sync, d.pid, d.pusi, d.af,
                    PesPayload(d.ok, d.flags, d.hdl, d.pts, d.dts))
      [] d.k = "tot" -> TotPacket(d.pusi, d.tid, d.mjd, d.h, d.m, d.s)
      [] d.k = "totx" -> TotPacketAt(d.pusi, d.af, d.pointer, d.tid, d.mjd,
                                     d.h, d.m, d.s)
      [] d.k = "pat" -> PatPacket(d.tid, d.numbers)
      [] d.k = "sec" -> SecPacket(d.pusi, d.af, d.head \o Pattern(TS_PACKET_SIZE, d.seed))

Pes(sync, pid, pusi, af, ok, flags, hdl, pts, dts) ==
    [k |-> "pes", sync |-> sync, pid |-> pid, pusi |-> pusi, af |-> af,
     ok |-> ok, flags |-> flags, hdl |-> hdl, pts |-> pts, dts |-> dts]
Video(pid, pts) == Pes(SYNC_BYTE, pid, TRUE, None, TRUE, 2, 5, pts, 0)
Tot(pusi, tid, mjd, h, m, s) ==
    [k |-> "tot", pusi |-> pusi, tid |-> tid, mjd |-> mjd, h |-> h, m |-> m, s |-> s]
TotAt(pusi, af, pointer, tid, mjd, h, m, s) ==
    [k |-> "totx", pusi |-> pusi, af |-> af, pointer |-> pointer, tid |-> tid,
     mjd |-> mjd, h |-> h, m |-> m, s |-> s]
Pat(tid, numbers) == [k |-> "pat", tid |-> tid, numbers |-> numbers]
Sec(pusi, af, head, seed) ==
    [k |-> "sec", pusi |-> pusi, af |-> af, head |-> head, seed |-> seed]

\* All sequences over S of length at most n.
SeqsUpTo(S, n) == UNION { [1..m -> S] : m \in 0..n }

(***************************************************************************)
(* State.                                                                  *)
(***************************************************************************)
VARIABLES
    pc,                   \* where the run stands
    \* the inputs: the file and the command line
    stream,               \* the input file, a sequence of packet descriptors
    avs,                  \* None, or Some(the Trim() pairs of the AVS file)
    output,               \* whether -o was given
    \* StreamAnalyzer and main
    i,                    \* the packet index of the scan under way
    video_pid,            \* None until find_video_pid returned
    video_index,          \* the PTS of each frame, in arrival order
    service_id,           \* StreamAnalyzer.service_id
    pat_collector,        \* the SectionCollector under way
    pat_feeds,            \* how many packets were handed to pat_collector
    trim_specs,           \* the ranges to process
    seg,                  \* the index of the range under way (from 1)
    start_pts, end_pts,   \* the two targets of the range under way
    start_tot, end_tot,   \* the two answers for the range under way
    segments,             \* the records of the ranges done
    outcome,              \* None while running, else how the run ended
    written,              \* None, or Some(the JSON document written)
    index_reads,          \* the positions video_index was read at
    \* find_tot_near_frame
    target_pts, search_range, found_target, packets_since_target,
    last_video_pts, tot_time, tot_video_pts,
    tot_ret,              \* None, or Some(the value returned)
    tot_how,              \* which return statement ended the scan
    tot_at,               \* the position of the packet tot_time was decoded from
    tot_scans,            \* how many scans were started
    queries, answers,     \* the targets asked for directly, and the scans done
    \* the functions applied on their own
    packet, result,       \* an input packet and what was made of it
    value, marks,         \* a 33-bit value and the prefix and marker bits
    fed, returned         \* the packets given to a collector, and its answers

inVars == <<stream, avs, output>>
anVars == <<i, video_pid, video_index, service_id, pat_collector, pat_feeds>>
mainVars == <<trim_specs, seg, start_pts, end_pts, start_tot, end_tot, segments,
              outcome, written, index_reads>>
totVars == <<target_pts, search_range, found_target, packets_since_target,
             last_video_pts, tot_time, tot_video_pts, tot_ret, tot_how, tot_at,
             tot_scans>>
qVars == <<queries, answers>>
fnVars == <<packet, result, value, marks>>
colVars == <<fed, returned>>
vars == <<pc, inVars, anVars, mainVars, totVars, qVars, fnVars, colVars>>

InIdle == stream = << >> /\ avs = None /\ output = FALSE
AnIdle ==
    /\ i = 0 /\ video_pid = None /\ video_index = << >> /\ service_id = None
    /\ pat_collector = NewCollector /\ pat_feeds = 0
MainIdle ==
    /\ trim_specs = << >> /\ seg = 0 /\ start_pts = 0 /\ end_pts = 0
    /\ start_tot = None /\ end_tot = None
    /\ segments = << >> /\ outcome = None /\ written = None /\ index_reads = {}
TotIdle ==
    /\ target_pts = 0 /\ search_range = 0 /\ found_target = FALSE
    /\ packets_since_target = 0 /\ last_video_pts = None /\ tot_time = None
    /\ tot_video_pts = None /\ tot_ret = None /\ tot_how = "" /\ tot_at = 0
    /\ tot_scans = 0
QIdle == queries = << >> /\ answers = << >>
FnIdle == packet = None /\ result = None /\ value = {} /\ marks = << >>
ColIdle == fed = << >> /\ returned = << >>

(***************************************************************************)
(* The 5-byte timestamp form on its own: a value is encoded, then decoded  *)
(* by extract_pts_dts.                                                     *)
(***************************************************************************)
TsBits == 33
MaxOnes == 1

RECURSIVE FewBits(_)
\* The wide values with at most n bits set.
FewBits(n) ==
    IF n = 0 THEN { {} }
    ELSE LET P == FewBits(n - 1)
         IN  P \cup { S \cup {b} : S \in P, b \in 0..(TsBits - 1) }

\* The values tried: few bits set, or few bits clear.
CodecValues ==
    FewBits(MaxOnes) \cup { (0..(TsBits - 1)) \ S : S \in FewBits(MaxOnes) }

CodecInit ==
    /\ pc = "encode"
    /\ value \in CodecValues
    /\ marks \in {1, 2, 3} \X {0, 1} \X {0, 1} \X {0, 1}
    /\ packet = None /\ result = None
    /\ InIdle /\ AnIdle /\ MainIdle /\ TotIdle /\ QIdle /\ ColIdle

CodecEncode ==
    /\ pc = "encode"
    /\ packet' = Some(EncodeTs(marks[1], value, marks[2], marks[3], marks[4]))
    /\ pc' = "decode"
    /\ UNCHANGED <<inVars, anVars, mainVars, totVars, qVars, colVars,
                   result, value, marks>>

CodecDecode ==
    /\ pc = "decode"
    /\ result' = Some(extract_pts_dts(Val(packet), 0))
    /\ pc' = "decoded"
    /\ UNCHANGED <<inVars, anVars, mainVars, totVars, qVars, colVars,
                   packet, value, marks>>

CodecNext == CodecEncode \/ CodecDecode

SpecCodec == CodecInit /\ [][CodecNext]_vars

(***************************************************************************)
(* parse_pts_dts on its own, over a family of PES packets.                 *)
(***************************************************************************)
PesPackets ==
    { Pes(SYNC_BYTE, VIDEO_PID_MIN + 1, pusi, af, ok, flags, hdl, 90000, 3003) :
        pusi \in BOOLEAN,
        af \in {None, Some(0), Some(165), Some(170), Some(176), Some(183)},
        ok \in BOOLEAN, flags \in 0..3, hdl \in {0, 5, 10, 200} }

PesInit ==
    /\ pc = "parse"
    /\ packet \in { Some(d) : d \in PesPackets }
    /\ result = None /\ value = {} /\ marks = << >>
    /\ InIdle /\ AnIdle /\ MainIdle /\ TotIdle /\ QIdle /\ ColIdle

PesParse ==
    /\ pc = "parse"
    /\ result' = Some(parse_pts_dts(Bytes(Val(packet))))
    /\ pc' = "parsed"
    /\ UNCHANGED <<inVars, anVars, mainVars, totVars, qVars, colVars,
                   packet, value, marks>>

PesNext == PesParse

SpecPes == PesInit /\ [][PesNext]_vars

\* C10: a 33-bit value encoded into the 5-byte marker-interleaved form and
\* decoded by extract_pts_dts comes back unchanged, whatever the prefix and
\* the marker bits are.
C10_RoundTrip == pc = "decoded" => result = Some(Some(value))

\* A value with its top bit set and bit 29 clear went through both steps with
\* the first marker bit set and the third clear.
C10_Witness ==
    /\ pc = "decoded" /\ 32 \in value /\ 29 \notin value
    /\ marks[2] = 1 /\ marks[4] = 0
    /\ result = Some(Some(value))

\* The payload offset a PES descriptor's header leaves.
PesOffset(d) == IF d.af = None THEN 4 ELSE 5 + Val(d.af)

\* C9: parse_pts_dts gives (None, None) unless payload_unit_start is set, nine
\* header bytes fit and the start code is 00 00 01; a DTS comes only with
\* pts_dts_flags = 11 and then with a PTS; with flags 11 and a PTS or DTS that
\* does not fit the result is (None, None); the result is never (None, DTS).
C9_AllOrNothing ==
    pc = "parsed" =>
        LET d == Val(packet)
            r == Val(result)
            fits == PesOffset(d) + 9 <= TS_PACKET_SIZE
        IN  /\ r # <<None, None>> => (d.pusi /\ fits /\ d.ok)
            /\ r[2] # None => (d.flags = 3 /\ r[1] # None)
            /\ (d.flags = 3 /\ PesOffset(d) + 9 + 10 > TS_PACKET_SIZE)
                   => r = <<None, None>>
            /\ ~(r[1] = None /\ r[2] # None)

(***************************************************************************)
(* A SectionCollector on its own, fed packet after packet.                 *)
(***************************************************************************)
MaxFeed == 3

\* The first bytes of a start-of-payload payload: pointer_field 0, table id 0
\* and a section_length field declaring 300 bytes in all (0x129 + 3), or 16.
Head300 == << 0, 0, 177, 41 >>
Head16 == << 0, 0, 176, 13 >>

CollectorPackets ==
    { Sec(TRUE, af, Head300, 1) :
        af \in {None, Some(86), Some(180), Some(181), Some(182), Some(183)} }
    \cup { Sec(TRUE, None, Head16, 5) }
    \cup { Sec(FALSE, af, << >>, 3) : af \in {None, Some(86), Some(183)} }

ColInit ==
    /\ pc = "feed"
    /\ pat_collector = NewCollector /\ fed = << >> /\ returned = << >>
    /\ i = 0 /\ video_pid = None /\ video_index = << >> /\ service_id = None
    /\ pat_feeds = 0
    /\ InIdle /\ MainIdle /\ TotIdle /\ QIdle /\ FnIdle

ColFeed(d) ==
    /\ pc = "feed"
    /\ Len(fed) < MaxFeed
    /\ \E r \in { add_packet(pat_collector, Bytes(d)) } :
           /\ pat_collector' = r.c
           /\ returned' = Append(returned, r.ret)
    /\ fed' = Append(fed, d)
    /\ pat_feeds' = pat_feeds + 1
    /\ UNCHANGED <<pc, inVars, i, video_pid, video_index, service_id, mainVars,
                   totVars, qVars, fnVars>>

ColNext == \E d \in CollectorPackets : ColFeed(d)

SpecCollector == ColInit /\ [][ColNext]_vars

\* The section bytes a descriptor's packet carries: what fits after the header
\* and the adaptation field, less the pointer_field of a start packet.
SecData(d) ==
    LET room == TS_PACKET_SIZE - (IF d.af = None THEN 4 ELSE 5 + Val(d.af))
        all == SliceTo(d.head \o Pattern(TS_PACKET_SIZE, d.seed),
                       IF room > 0 THEN room ELSE 0)
    IN  IF d.pusi /\ all # << >> THEN Tail(all) ELSE all

RECURSIVE Delivered(_, _)
\* The section bytes delivered by the first n packets fed.
Delivered(ds, n) ==
    IF n = 0 THEN << >> ELSE Delivered(ds, n - 1) \o SecData(ds[n])

\* The length a section declares in its own header.
DeclaredLen(sec) == (sec[2] % 16) * 256 + sec[3] + 3

\* C5: a section delivered to a fresh collector as a start-of-payload packet
\* (pointer_field 0) followed by continuation packets: add_packet returns
\* nothing while fewer than the declared L bytes have arrived, and on the
\* packet where L is reached it returns the first L bytes of the section.
C5_Reassembly ==
    (/\ fed # << >>
     /\ fed[1].pusi
     /\ \A n \in 2..Len(fed) : ~fed[n].pusi
     /\ Len(Delivered(fed, Len(fed))) >= 3)
    => LET whole == Delivered(fed, Len(fed))
           L == DeclaredLen(whole)
       IN  \A n \in 1..Len(fed) :
               LET got == Len(Delivered(fed, n))
                   before == IF n = 1 THEN 0 ELSE Len(Delivered(fed, n - 1))
               IN  /\ got < L => returned[n] = None
                   /\ (before < L /\ got >= L)
                          => returned[n] = Some(SliceTo(whole, L))

(***************************************************************************)
(* StreamAnalyzer (lines 233-273). Each action reads one packet of the     *)
(* file, or meets its end. The file holds whole packets only; both scans   *)
(* drop a trailing partial packet unread (lines 245 and 268).              *)
(***************************************************************************)
\* find_video_pid reads the first 5000 packets only (line 263).
PROBE_PACKETS == 5000

ProbeLen == IF Len(stream) < PROBE_PACKETS THEN Len(stream) ELSE PROBE_PACKETS

\* Lines 269-272 on one packet: Some(pid) where find_video_pid returns pid
\* at this packet, else None. The first byte is not looked at.
ProbeHit(pkt) ==
    LET pid == get_pid(pkt)
    IN  IF /\ VIDEO_PID_MIN <= pid /\ pid <= VIDEO_PID_MAX
           /\ has_payload_start(pkt)
           /\ parse_pts(pkt) # None
        THEN Some(pid) ELSE None

\* find_video_pid, one packet (lines 266-272).
FindVideoPidPacket ==
    /\ pc = "find_video_pid"
    /\ i <= ProbeLen
    /\ \E hit \in { ProbeHit(Bytes(stream[i])) } :
           IF hit # None
           THEN /\ video_pid' = hit
                /\ pc' = "build_video_index"
                /\ i' = 1
           ELSE /\ i' = i + 1
                /\ UNCHANGED <<pc, video_pid>>
    /\ UNCHANGED <<inVars, video_index, service_id, pat_collector, pat_feeds,
                   mainVars, totVars, qVars, fnVars, colVars>>

\* find_video_pid, the prefix read through (line 273).
FindVideoPidDefault ==
    /\ pc = "find_video_pid"
    /\ i > ProbeLen
    /\ video_pid' = Some(VIDEO_PID_MIN)
    /\ pc' = "build_video_index"
    /\ i' = 1
    /\ UNCHANGED <<inVars, video_index, service_id, pat_collector, pat_feeds,
                   mainVars, totVars, qVars, fnVars, colVars>>

\* A planted fault of IndexAppend: the PID is not compared.
IndexAppendAnyPid(index, pkt, vpid) ==
    IF has_payload_start(pkt)
    THEN LET pts == parse_pts_dts(pkt)[1]
         IN  IF pts # None THEN Append(index, Val(pts)) ELSE index
    ELSE index

\* Lines 256-259: the frame index after a packet with the sync byte.
IndexAppend(index, pkt, vpid) ==
    IF get_pid(pkt) = vpid
    THEN IF has_payload_start(pkt)
         THEN LET pts == parse_pts_dts(pkt)[1]
              IN  IF pts # None THEN Append(index, Val(pts)) ELSE index
         ELSE index
    ELSE index

\* A planted fault of PatWanted: the PAT is followed for the whole run.
PatWantedAlways(sid, pkt) == get_pid(pkt) = PAT_PID

\* Line 251: whether the packet goes to the PAT collector.
PatWanted(sid, pkt) == sid = None /\ get_pid(pkt) = PAT_PID

\* Lines 253-255: the service id after the collector returned ret.
PatServiceId(sid, ret) ==
    IF ret # None /\ Val(ret) # << >> /\ Val(ret)[1] = PAT_TABLE_ID
    THEN LET service_ids == parse_pat_section(Val(ret))
         IN  IF service_ids # << >> THEN Some(service_ids[1]) ELSE sid
    ELSE sid

\* Lines 249-259 on one packet: the analyzer's fields after it.
BuildIndexStep(pkt) ==
    IF B(pkt, 0) # SYNC_BYTE
    THEN [video_index |-> video_index, service_id |-> service_id,
          pat_collector |-> pat_collector, pat_feeds |-> pat_feeds]
    ELSE LET wanted == PatWanted(service_id, pkt)
             r == IF wanted THEN add_packet(pat_collector, pkt)
                  ELSE [c |-> pat_collector, ret |-> None]
         IN  [video_index |-> IndexAppend(video_index, pkt, Val(video_pid)),
              service_id |-> IF wanted THEN PatServiceId(service_id, r.ret)
                             ELSE service_id,
              pat_collector |-> r.c,
              pat_feeds |-> IF wanted THEN pat_feeds + 1 ELSE pat_feeds]

\* build_video_index, one packet (lines 246-259).
BuildIndexPacket ==
    /\ pc = "build_video_index"
    /\ i <= Len(stream)
    /\ \E r \in { BuildIndexStep(Bytes(stream[i])) } :
           /\ video_index' = r.video_index
           /\ service_id' = r.service_id
           /\ pat_collector' = r.pat_collector
           /\ pat_feeds' = r.pat_feeds
    /\ i' = i + 1
    /\ UNCHANGED <<pc, inVars, video_pid, mainVars, totVars, qVars, fnVars,
                   colVars>>

\* build_video_index, the end of the file (lines 244 and 260).
BuildIndexEof ==
    /\ pc = "build_video_index"
    /\ i > Len(stream)
    /\ pc' = "indexed"
    /\ UNCHANGED <<inVars, anVars, mainVars, totVars, qVars, fnVars, colVars>>

(***************************************************************************)
(* find_tot_near_frame (lines 287-321). tot_ret is None while the scan     *)
(* runs and Some(v) once it returned v (v itself None or Some(datetime)).  *)
(***************************************************************************)
\* search_range's default (line 287).
DEFAULT_SEARCH_RANGE == 50000

\* The scans under way, and where each returns to.
ScanPcs == {"tot_start", "tot_end", "tot_query"}
RetPc(p) ==
    CASE p = "tot_start" -> "ret_start"
      [] p = "tot_end" -> "ret_end"
      [] p = "tot_query" -> "ret_query"

\* A planted fault of TotTruthy: an anchor PTS of 0 counts as an anchor.
TotTruthyZero(t, a) == t # None /\ a # None

\* `tot_time and tot_video_pts` (lines 314 and 318): a datetime is always
\* true, None and the integer 0 are false.
TotTruthy(t, a) == t # None /\ a # None /\ Val(a) # 0

\* Lines 315-316 and 319-320.
Interpolate(t, a, target) == Some(PlusTicks(Val(t), target - Val(a)))

\* Lines 288-293: a scan begins.
TotBegin(target, range) ==
    /\ target_pts' = target
    /\ search_range' = range
    /\ found_target' = FALSE
    /\ packets_since_target' = 0
    /\ last_video_pts' = None
    /\ tot_time' = None
    /\ tot_video_pts' = None
    /\ tot_ret' = None
    /\ tot_how' = ""
    /\ tot_at' = 0
    /\ tot_scans' = tot_scans + 1
    /\ i' = 1

\* A planted fault of WindowOver: one packet more is let through.
WindowOverLate(pst, range) == pst > range + 1

\* Line 317: `if packets_since_target > search_range`.
WindowOver(pst, range) == pst > range

\* Lines 302-317 on one packet with the sync byte: the scan's variables after
\* it, with tot_ret = Some(v) where the scan returns v at this packet.
TotScanStep(pkt) ==
    LET pid == get_pid(pkt)
        pts == IF pid = Val(video_pid) /\ has_payload_start(pkt)
               THEN parse_pts(pkt) ELSE None
        lvp == IF pts # None THEN pts ELSE last_video_pts
        ft == found_target \/ (pts # None /\ Val(pts) >= target_pts)
        parsed_tot == IF pid = TOT_PID THEN parse_tot(pkt) ELSE None
        tt == IF parsed_tot # None THEN parsed_tot ELSE tot_time
        tvp == IF parsed_tot # None THEN lvp ELSE tot_video_pts
        pst == IF ft THEN packets_since_target + 1 ELSE packets_since_target
        how == IF ft /\ TotTruthy(tt, tvp) THEN "match"
               ELSE IF ft /\ WindowOver(pst, search_range) THEN "window"
               ELSE ""
    IN  [last_video_pts |-> lvp, found_target |-> ft, tot_time |-> tt,
         tot_video_pts |-> tvp, tot_at |-> IF parsed_tot # None THEN i ELSE tot_at,
         packets_since_target |-> pst, tot_how |-> how,
         tot_ret |-> IF how = "match" THEN Some(Interpolate(tt, tvp, target_pts))
                     ELSE IF how = "window" THEN Some(tt)
                     ELSE None]

\* One packet of the scan (lines 299-317).
TotScanPacket ==
    /\ pc \in ScanPcs
    /\ i <= Len(stream)
    /\ \E pkt \in { Bytes(stream[i]) } :
           IF B(pkt, 0) # SYNC_BYTE
           THEN /\ i' = i + 1
                /\ UNCHANGED <<pc, found_target, packets_since_target,
                               last_video_pts, tot_time, tot_video_pts, tot_ret,
                               tot_how, tot_at>>
           ELSE \E r \in { TotScanStep(pkt) } :
                /\ last_video_pts' = r.last_video_pts
                /\ found_target' = r.found_target
                /\ tot_time' = r.tot_time
                /\ tot_video_pts' = r.tot_video_pts
                /\ tot_at' = r.tot_at
                /\ packets_since_target' = r.packets_since_target
                /\ tot_ret' = r.tot_ret
                /\ tot_how' = r.tot_how
                /\ IF r.tot_ret # None
                   THEN pc' = RetPc(pc) /\ i' = i
                   ELSE pc' = pc /\ i' = i + 1
    /\ UNCHANGED <<inVars, video_pid, video_index, service_id, pat_collector,
                   pat_feeds, mainVars, target_pts, search_range, tot_scans,
                   qVars, fnVars, colVars>>

\* The end of the file (lines 297 and 318-321).
TotScanEof ==
    /\ pc \in ScanPcs
    /\ i > Len(stream)
    /\ tot_ret' = IF TotTruthy(tot_time, tot_video_pts)
                  THEN Some(Interpolate(tot_time, tot_video_pts, target_pts))
                  ELSE Some(tot_time)
    /\ tot_how' = "eof"
    /\ pc' = RetPc(pc)
    /\ UNCHANGED <<inVars, anVars, mainVars, target_pts, search_range,
                   found_target, packets_since_target, last_video_pts, tot_time,
                   tot_video_pts, tot_at, tot_scans, qVars, fnVars, colVars>>

(***************************************************************************)
(* The correlator called on its own: two targets, one after the other, on  *)
(* the same file, with the window of the default or a small one.           *)
(***************************************************************************)
MaxCorrLen == 4
SmallRange == 1

TotA == Tot(TRUE, TOT_TABLE_ID, 58849, 9, 0, 0)
TotB == Tot(TRUE, TOT_TABLE_ID, 58849, 9, 0, 5)
Pat101 == Pat(PAT_TABLE_ID, <<101>>)

CorrPackets ==
    { Video(257, 0), Video(257, 90000), Video(257, 180000), TotA, TotB }

\* The files tried: a PAT in front or not, then the packets of CorrPackets.
CorrStreams ==
    { front \o body : front \in { << >>, << Pat101 >> },
                      body \in SeqsUpTo(CorrPackets, MaxCorrLen) }

CorrTargets == {90000, 180000, 270000}

CorrInit ==
    /\ pc = "tot_query"
    /\ stream \in CorrStreams
    /\ avs = None /\ output = FALSE
    /\ video_pid = Some(257)
    /\ queries \in { q \in CorrTargets \X CorrTargets : q[1] < q[2] }
    /\ answers = << >>
    /\ target_pts = queries[1]
    /\ search_range \in {SmallRange, DEFAULT_SEARCH_RANGE}
    /\ i = 1
    /\ found_target = FALSE /\ packets_since_target = 0
    /\ last_video_pts = None /\ tot_time = None /\ tot_video_pts = None
    /\ tot_ret = None /\ tot_how = "" /\ tot_at = 0 /\ tot_scans = 1
    /\ video_index = << >> /\ service_id = None
    /\ pat_collector = NewCollector /\ pat_feeds = 0
    /\ MainIdle /\ FnIdle /\ ColIdle

\* The caller takes the answer and asks for the next target.
CorrReturned ==
    /\ pc = "ret_query"
    /\ answers' = Append(answers,
           [target |-> target_pts, ret |-> Val(tot_ret), how |-> tot_how,
            found |-> found_target, tot |-> tot_time, anchor |-> tot_video_pts,
            at |-> tot_at, read |-> IF i > Len(stream) THEN Len(stream) ELSE i])
    /\ IF Len(answers) + 1 < Len(queries)
       THEN /\ TotBegin(queries[Len(answers) + 2], search_range)
            /\ pc' = "tot_query"
       ELSE /\ pc' = "answered"
            /\ UNCHANGED <<i, totVars>>
    /\ UNCHANGED <<inVars, video_pid, video_index, service_id, pat_collector,
                   pat_feeds, mainVars, queries, fnVars, colVars>>

CorrNext == TotScanPacket \/ TotScanEof \/ CorrReturned

SpecCorr == CorrInit /\ [][CorrNext]_vars

\* The stream of the end-to-end scenario.
Scenario ==
    << Pat101, Video(257, 0), TotA, Video(257, 90000), Video(257, 180000) >>

\* C1: on the scenario stream (PAT 101; video PTS 0, 90000, 180000 on PID
\* 0x101; the TOT 58849 09:00:00 right after the first video packet),
\* find_tot_near_frame with target 180000 returns 2020-01-01 09:00:02.000.
C1_Scenario ==
    \A n \in 1..Len(answers) :
        (/\ stream = Scenario /\ search_range = DEFAULT_SEARCH_RANGE
         /\ answers[n].target = 180000)
            => answers[n].ret = Some(<<737425, 32402, 0>>)

\* The position of the last decodable TOT among the first n packets (0: none).
LatestTotPos(n) ==
    LET S == { k \in 1..n : /\ stream[k].k = "tot"
                            /\ parse_tot(Bytes(stream[k])) # None }
    IN  IF S = {} THEN 0 ELSE CHOOSE k \in S : \A j \in S : j <= k

\* The most recently decoded TOT time among the first n packets.
LatestTot(n) ==
    IF LatestTotPos(n) = 0 THEN None ELSE parse_tot(Bytes(stream[LatestTotPos(n)]))

\* The PTS of the last video frame before position p (None: there is none).
AnchorPts(p) ==
    LET S == { k \in 1..(p - 1) : stream[k].k = "pes" }
    IN  IF S = {} THEN None
        ELSE Some(stream[CHOOSE k \in S : \A j \in S : j <= k].pts)

\* A datetime moved by a whole number of seconds within its day.
PlusSeconds(t, n) == <<t[1], t[2] + n, t[3]>>

\* C2 as stated: a scan that ends on the exhausted window or at the end of
\* the file returns the most recently decoded TOT time with no offset added
\* (None if no TOT was decoded).
C2_Original ==
    \A n \in 1..Len(answers) :
        answers[n].how \in {"window", "eof"}
            => answers[n].ret = LatestTot(answers[n].read)

\* C2, amended: a scan that ends on the exhausted window, or at the end of the
\* file after a video PTS >= target was seen, returns the most recently
\* decoded TOT time with no offset added (None if no TOT was decoded); a scan
\* that meets the end of the file without having seen such a PTS returns that
\* TOT time plus (target - anchor) / 90000 seconds when the TOT has an anchor
\* PTS other than 0, and the bare TOT time (or None) otherwise.
C2_Fallback ==
    \A n \in 1..Len(answers) :
        LET a == answers[n]
            latest == LatestTot(a.read)
            anchor == AnchorPts(LatestTotPos(a.read))
        IN  /\ a.how = "window" => a.ret = latest
            /\ (a.how = "eof" /\ a.found) => a.ret = latest
            /\ (a.how = "eof" /\ ~a.found) =>
                   a.ret = IF latest # None /\ anchor # None /\ Val(anchor) # 0
                           THEN Some(PlusSeconds(Val(latest),
                                    (a.target - Val(anchor)) \div CLOCK_FREQ))
                           ELSE latest

\* One scan ended on the exhausted window, and another met the end of the
\* file without its target and returned a time that is not the bare TOT time.
C2_Witness ==
    /\ \E n \in 1..Len(answers) : answers[n].how = "window"
    /\ \E n \in 1..Len(answers) :
           /\ answers[n].how = "eof" /\ ~answers[n].found
           /\ answers[n].ret # None
           /\ answers[n].ret # LatestTot(answers[n].read)

\* The microseconds from datetime y to datetime x of the same day.
DiffUs(x, y) == (x[2] - y[2]) * 1000000 + (x[3] - y[3])

\* C3: two targets t1 < t2 on one stream whose scans both end with the same
\* TOT packet as the latest decoded TOT and the same anchor PTS: the results
\* satisfy time(t1) <= time(t2) and differ by exactly (t2 - t1) ticks of the
\* 90 kHz clock.
C3_Monotone ==
    (/\ Len(answers) = 2
     /\ answers[1].at # 0 /\ answers[1].at = answers[2].at
     /\ answers[1].anchor # None /\ answers[1].anchor = answers[2].anchor)
    => LET r1 == Val(answers[1].ret)
           r2 == Val(answers[2].ret)
       IN  /\ r1[1] = r2[1]
           /\ DiffUs(r2, r1) >= 0
           /\ DiffUs(r2, r1) * 9 = (answers[2].target - answers[1].target) * 100

(***************************************************************************)
(* The analyzer on its own: find_video_pid, then build_video_index.        *)
(***************************************************************************)
MaxIndexLen == 3

\* A first byte that is not the sync byte.
BAD_SYNC == 72

IndexPackets ==
    { Video(257, 0), Video(257, 90000), Video(258, 3000),
      Pes(SYNC_BYTE, 257, FALSE, None, TRUE, 2, 5, 6000, 0),
      Pes(SYNC_BYTE, 257, TRUE, None, TRUE, 0, 0, 9000, 0),
      Pes(BAD_SYNC, 257, TRUE, None, TRUE, 2, 5, 12000, 0),
      Pes(BAD_SYNC, 427, TRUE, None, TRUE, 2, 5, 15000, 0),
      Pat101, Pat(PAT_TABLE_ID, <<0, 102, 103>>), Pat(PAT_TABLE_ID, <<0>>),
      Pat(2, <<7>>) }

IndexInit ==
    /\ pc = "find_video_pid"
    /\ stream \in SeqsUpTo(IndexPackets, MaxIndexLen)
    /\ avs = None /\ output = FALSE
    /\ i = 1 /\ video_pid = None /\ video_index = << >> /\ service_id = None
    /\ pat_collector = NewCollector /\ pat_feeds = 0
    /\ MainIdle /\ TotIdle /\ QIdle /\ FnIdle /\ ColIdle

IndexNext ==
    \/ FindVideoPidPacket
    \/ FindVideoPidDefault
    \/ BuildIndexPacket
    \/ BuildIndexEof

SpecIndex == IndexInit /\ [][IndexNext]_vars

\* The packets build_video_index has read.
IndexedPrefix == SubSeq(stream, 1, i - 1)

\* A packet (first byte 0x47) on PID vpid with payload_unit_start set and a
\* PES header that carries a PTS.
Framed(d, vpid) ==
    /\ d.k = "pes" /\ d.sync = SYNC_BYTE /\ d.pid = vpid
    /\ d.pusi /\ d.ok /\ d.flags \in {2, 3}

RECURSIVE ExpectedIndex(_, _)
\* The PTS of the framed packets of ds, in arrival order.
ExpectedIndex(ds, vpid) ==
    IF ds = << >> THEN << >>
    ELSE (IF Framed(Head(ds), vpid) THEN << Head(ds).pts >> ELSE << >>)
         \o ExpectedIndex(Tail(ds), vpid)

\* C6: the frame index built by build_video_index holds exactly the PTS of
\* the packets (188-byte blocks starting with the sync byte) on the selected
\* video PID that have payload_unit_start set and a decodable PTS, in
\* arrival order; packets of other PIDs, PAT packets included, add nothing,
\* remove nothing and reorder nothing.
C6_FrameIndex ==
    pc \in {"build_video_index", "indexed"}
        => video_index = ExpectedIndex(IndexedPrefix, Val(video_pid))

\* A file was indexed in which a PAT packet stands between two frames.
C6_Witness ==
    /\ pc = "indexed" /\ Len(stream) = 3
    /\ stream[1].k = "pes" /\ stream[2].k = "pat" /\ stream[3].k = "pes"
    /\ video_index = << stream[1].pts, stream[3].pts >>

\* C7: in every scan a packet whose first byte is not 0x47 is skipped
\* entirely: the step that reads it leaves the selected video PID, the frame
\* index, the service id and the correlated timestamp as they were, and the
\* scan goes on.
C7_SyncSkip ==
    [][(/\ pc \in {"find_video_pid", "build_video_index"} \cup ScanPcs
        /\ i >= 1 /\ i <= Len(stream)
        /\ stream[i].k = "pes" /\ stream[i].sync # SYNC_BYTE)
       => (/\ video_pid' = video_pid /\ video_index' = video_index
           /\ service_id' = service_id /\ tot_ret' = tot_ret
           /\ pc' = pc /\ i' = i + 1)]_vars

RECURSIVE FirstNonZero(_)
\* The first non-zero program number of a list (None: there is none).
FirstNonZero(numbers) ==
    IF numbers = << >> THEN None
    ELSE IF Head(numbers) # 0 THEN Some(Head(numbers))
    ELSE FirstNonZero(Tail(numbers))

\* A complete PAT section that lists a non-zero program number.
NamesService(d) ==
    d.k = "pat" /\ d.tid = PAT_TABLE_ID /\ FirstNonZero(d.numbers) # None

RECURSIVE ExpectedSid(_)
\* The first non-zero program number of the first section of ds that has one.
ExpectedSid(ds) ==
    IF ds = << >> THEN None
    ELSE IF NamesService(Head(ds)) THEN FirstNonZero(Head(ds).numbers)
    ELSE ExpectedSid(Tail(ds))

RECURSIVE ExpectedFeeds(_)
\* The PAT packets of ds up to and including the first that names a service.
ExpectedFeeds(ds) ==
    IF ds = << >> THEN 0
    ELSE IF NamesService(Head(ds)) THEN 1
    ELSE (IF Head(ds).k = "pat" THEN 1 ELSE 0) + ExpectedFeeds(Tail(ds))

\* C8: during build_video_index the service id is unset until the first
\* completed PAT section (table id 0x00) that lists a non-zero program
\* number, takes that section's first non-zero program number, and keeps it:
\* later PAT packets neither change it nor reach the PAT collector.
C8_SetOnce ==
    pc \in {"build_video_index", "indexed"}
        => /\ service_id = ExpectedSid(IndexedPrefix)
           /\ pat_feeds = ExpectedFeeds(IndexedPrefix)

\* A PAT without a service, then the PAT (0, 102, 103) that gave 102, then a
\* PAT listing 101 that changed nothing and was not fed to the collector.
C8_Witness ==
    /\ pc = "indexed" /\ Len(stream) = 3
    /\ stream[1] = Pat(PAT_TABLE_ID, <<0>>)
    /\ stream[2] = Pat(PAT_TABLE_ID, <<0, 102, 103>>)
    /\ stream[3] = Pat101
    /\ service_id = Some(102) /\ pat_feeds = 2

(***************************************************************************)
(* main (lines 324-407): the analysis, the ranges, two scans for each      *)
(* range, the JSON document. avs is the list parse_avs_file returns (its   *)
(* regular expression matches digits only, so the frame numbers are        *)
(* naturals); a range's printed strings and its duration are derived from  *)
(* start_tot and end_tot and are not carried in the segment records.       *)
(***************************************************************************)
\* A planted fault of NoFrames: an empty index is let through.
NoFramesNever(index) == FALSE

\* Line 341: `if total_frames == 0`.
NoFrames(index) == Len(index) = 0

\* Lines 340-360: the frame count is checked and the ranges are chosen.
MainRanges ==
    /\ pc = "indexed"
    /\ IF NoFrames(video_index)
       THEN /\ outcome' = Some("no_frames")
            /\ pc' = "done"
            /\ UNCHANGED <<trim_specs, seg>>
       ELSE IF avs # None /\ Val(avs) = << >>
       THEN /\ outcome' = Some("no_trim")
            /\ pc' = "done"
            /\ UNCHANGED <<trim_specs, seg>>
       ELSE /\ trim_specs' = IF avs # None THEN Val(avs)
                             ELSE << <<0, Len(video_index) - 1>> >>
            /\ seg' = 1
            /\ pc' = "segment"
            /\ UNCHANGED outcome
    /\ UNCHANGED <<inVars, anVars, start_pts, end_pts, start_tot, end_tot,
                   segments, written, index_reads, totVars, qVars, fnVars,
                   colVars>>

\* Lines 369-381: a range is checked, the index is read, the first scan
\* begins. Reading the index past its end raises IndexError.
MainSegment ==
    /\ pc = "segment"
    /\ LET start_frame == trim_specs[seg][1]
           end_frame == trim_specs[seg][2]
           total_frames == Len(video_index)
           end_at == IF end_frame + 1 < total_frames THEN end_frame + 1
                     ELSE end_frame
       IN  IF start_frame < 0 \/ end_frame >= total_frames
           THEN /\ outcome' = Some("out_of_bounds")
                /\ pc' = "done"
                /\ UNCHANGED <<start_pts, end_pts, index_reads, i, totVars>>
           ELSE IF start_frame >= total_frames
           THEN /\ index_reads' = index_reads \cup {start_frame}
                /\ outcome' = Some("IndexError")
                /\ pc' = "done"
                /\ UNCHANGED <<start_pts, end_pts, i, totVars>>
           ELSE /\ index_reads' = index_reads \cup {start_frame, end_at}
                /\ start_pts' = video_index[start_frame + 1]
                /\ end_pts' = video_index[end_at + 1]
                /\ TotBegin(video_index[start_frame + 1], DEFAULT_SEARCH_RANGE)
                /\ pc' = "tot_start"
                /\ UNCHANGED outcome
    /\ UNCHANGED <<inVars, video_pid, video_index, service_id, pat_collector,
                   pat_feeds, trim_specs, seg, start_tot, end_tot, segments,
                   written, qVars, fnVars, colVars>>

\* Lines 381-382: the first scan returned, the second begins.
MainStartTotReturned ==
    /\ pc = "ret_start"
    /\ start_tot' = Val(tot_ret)
    /\ TotBegin(end_pts, DEFAULT_SEARCH_RANGE)
    /\ pc' = "tot_end"
    /\ UNCHANGED <<inVars, video_pid, video_index, service_id, pat_collector,
                   pat_feeds, trim_specs, seg, start_pts, end_pts, end_tot,
                   segments, outcome, written, index_reads, qVars, fnVars,
                   colVars>>

\* Lines 382-399: the second scan returned; the range is recorded, or the run
\* ends for want of a TOT.
MainEndTotReturned ==
    /\ pc = "ret_end"
    /\ end_tot' = Val(tot_ret)
    /\ IF start_tot = None \/ Val(tot_ret) = None
       THEN /\ outcome' = Some("tot_not_found")
            /\ pc' = "done"
            /\ UNCHANGED <<segments, seg>>
       ELSE /\ segments' = Append(segments,
                  [index |-> seg, frames |-> trim_specs[seg],
                   start_tot |-> Val(start_tot), end_tot |-> Val(Val(tot_ret))])
            /\ IF seg < Len(trim_specs)
               THEN /\ seg' = seg + 1
                    /\ pc' = "segment"
                    /\ UNCHANGED outcome
               ELSE /\ pc' = IF output THEN "output" ELSE "done"
                    /\ outcome' = IF output THEN outcome ELSE Some("ok")
                    /\ UNCHANGED seg
    /\ UNCHANGED <<inVars, anVars, trim_specs, start_pts, end_pts, start_tot,
                   written, index_reads, totVars, qVars, fnVars, colVars>>

\* Lines 402-407: the JSON document; "sid" is there when service_id is true.
MainOutput ==
    /\ pc = "output"
    /\ written' = Some([segments |-> segments,
                        sid |-> IF service_id # None /\ Val(service_id) # 0
                                THEN service_id ELSE None])
    /\ outcome' = Some("ok")
    /\ pc' = "done"
    /\ UNCHANGED <<inVars, anVars, trim_specs, seg, start_pts, end_pts,
                   start_tot, end_tot, segments, index_reads, totVars, qVars,
                   fnVars, colVars>>

MaxLen == 3
MaxFrame == 1
MaxTrims == 2

MainPackets == { Video(257, 90000), Video(257, 180000), TotA, Pat101 }

\* The results parse_avs_file can give for the AVS files tried.
TrimLists == SeqsUpTo((0..MaxFrame) \X (0..MaxFrame), MaxTrims)

Init ==
    /\ pc = "find_video_pid"
    /\ stream \in SeqsUpTo(MainPackets, MaxLen)
    /\ avs \in {None} \cup { Some(t) : t \in TrimLists }
    /\ output \in BOOLEAN
    /\ i = 1 /\ video_pid = None /\ video_index = << >> /\ service_id = None
    /\ pat_collector = NewCollector /\ pat_feeds = 0
    /\ MainIdle /\ TotIdle /\ QIdle /\ FnIdle /\ ColIdle

Next ==
    \/ FindVideoPidPacket
    \/ FindVideoPidDefault
    \/ BuildIndexPacket
    \/ BuildIndexEof
    \/ MainRanges
    \/ MainSegment
    \/ TotScanPacket
    \/ TotScanEof
    \/ MainStartTotReturned
    \/ MainEndTotReturned
    \/ MainOutput

Spec == Init /\ [][Next]_vars

\* C4: when a requested frame number, start or end, of any range of the list
\* is negative or >= the total frame count, the run ends in the reported
\* out-of-bounds error, no TOT scan was begun in the run, and the frame index
\* was not read outside 0 .. total - 1.
C4_OutOfBounds ==
    (/\ pc = "done"
     /\ Len(video_index) > 0
     /\ avs # None
     /\ \E k \in 1..Len(Val(avs)) :
            \/ Val(avs)[k][1] >= Len(video_index)
            \/ Val(avs)[k][2] >= Len(video_index))
    => /\ outcome = Some("out_of_bounds")
       /\ tot_scans = 0
       /\ index_reads \subseteq 0..(Len(video_index) - 1)

(***************************************************************************)
(* parse_tot on its own, over a family of TOT packets.                     *)
(***************************************************************************)
\* MJD values tried: 1858-11-17, 1900-03-01, 1970-01-01, 2020-01-01,
\* 2020-02-29 and the last one 16 bits hold.
TotMjds == {0, 15079, 40587, 58849, 58908, 65535}

TotInputs ==
    { TotAt(pusi, af, pointer, tid, mjd, h, m, s) :
        pusi \in BOOLEAN, af \in {None, Some(170), Some(176), Some(183)},
        pointer \in {0, 5, 200}, tid \in {TOT_TABLE_ID, 112},
        mjd \in TotMjds, h \in {0, 35, 36}, m \in {0, 96}, s \in {0, 89, 96} }

TotInit ==
    /\ pc = "tot_parse"
    /\ packet \in { Some(d) : d \in TotInputs }
    /\ result = None /\ value = {} /\ marks = << >>
    /\ InIdle /\ AnIdle /\ MainIdle /\ TotIdle /\ QIdle /\ ColIdle

TotParse ==
    /\ pc = "tot_parse"
    /\ result' = Some(parse_tot(Bytes(Val(packet))))
    /\ pc' = "tot_parsed"
    /\ UNCHANGED <<inVars, anVars, mainVars, totVars, qVars, colVars,
                   packet, value, marks>>

TotNext == TotParse

SpecTot == TotInit /\ [][TotNext]_vars

\* The offset of the table id byte in a TOT descriptor's packet.
TotOffset(d) == PesOffset(d) + 1 + d.pointer

\* A TOT descriptor whose section is whole in the packet and has the TOT
\* table id, on a packet with payload_unit_start.
TotWhole(d) ==
    d.pusi /\ d.tid = TOT_TABLE_ID /\ TotOffset(d) + 8 <= TS_PACKET_SIZE

\* The number a BCD byte stands for.
BcdValue(b) == (b \div 16) * 10 + (b % 16)

\* C11: a TOT section with table id 0x73, MJD 40587 and BCD time 00/00/00
\* decodes to 1970-01-01 00:00:00, and MJD 58849 with 00/00/00 decodes to
\* 2020-01-01 00:00:00.
C11_Reference ==
    (/\ pc = "tot_parsed" /\ TotWhole(Val(packet))
     /\ Val(packet).h = 0 /\ Val(packet).m = 0 /\ Val(packet).s = 0)
    => /\ Val(packet).mjd = 40587 => Val(result) = Some(<<719163, 0, 0>>)
       /\ Val(packet).mjd = 58849 => Val(result) = Some(<<737425, 0, 0>>)

\* MJD 40587 at 00/00/00 was decoded behind an adaptation field.
C11_Witness ==
    /\ pc = "tot_parsed" /\ TotWhole(Val(packet))
    /\ Val(packet).af # None /\ Val(packet).mjd = 40587
    /\ Val(packet).h = 0 /\ Val(packet).m = 0 /\ Val(packet).s = 0
    /\ Val(result) = Some(<<719163, 0, 0>>)

\* MJD values of TotMjds that the formula gives no calendar date for: MJD 0
\* comes out as month -1.
NoDateMjds == {0}

\* C12: parse_tot gives a date-time or nothing for every packet; it gives
\* nothing when the table id is not 0x73, when fewer than 8 section bytes
\* remain after the pointer field, and when the decoded fields are not a
\* valid calendar date-time (BCD hour >= 24, minute or second >= 60, month
\* outside 1..12).
C12_NoResult ==
    pc = "tot_parsed" =>
        LET d == Val(packet)
            r == Val(result)
        IN  /\ \/ r = None
               \/ /\ Len(r) = 1 /\ Len(r[1]) = 3
                  /\ r[1][1] >= 1 /\ r[1][2] \in 0..86399 /\ r[1][3] = 0
            /\ d.tid # TOT_TABLE_ID => r = None
            /\ TotOffset(d) + 8 > TS_PACKET_SIZE => r = None
            /\ BcdValue(d.h) >= 24 => r = None
            /\ BcdValue(d.m) >= 60 => r = None
            /\ BcdValue(d.s) >= 60 => r = None
            /\ d.mjd \in NoDateMjds => r = None

\* A whole TOT section with a calendar date and BCD hour 24 gave nothing.
C12_Witness ==
    /\ pc = "tot_parsed" /\ TotWhole(Val(packet))
    /\ Val(packet).mjd = 58849 /\ Val(packet).h = 36
    /\ Val(packet).m = 0 /\ Val(packet).s = 0
    /\ Val(result) = None

\* The outcomes of a run that ended in an error.
ErrorOutcomes ==
    { Some(o) : o \in {"no_frames", "no_trim", "out_of_bounds", "IndexError",
                       "tot_not_found"} }

\* The file holds no TOT packet, so no boundary of any range is resolved.
NoTot == \A k \in 1..Len(stream) : stream[k].k # "tot"

\* C13: a run with an empty frame index, or with a range whose start or end
\* has no TOT, ends in an error and writes no JSON document; a JSON document
\* is written only by a run that resolved both boundaries of every requested
\* range, and holds one record for each range, in the order requested.
C13_FatalAbsence ==
    /\ (pc = "done" /\ Len(video_index) = 0)
           => (outcome = Some("no_frames") /\ written = None)
    /\ (pc = "done" /\ (NoTot \/ start_tot = None \/ end_tot = None))
           => (outcome \in ErrorOutcomes /\ written = None)
    /\ outcome \in ErrorOutcomes => written = None
    /\ written # None =>
           /\ output /\ outcome = Some("ok")
           /\ Val(written).segments = segments
           /\ Len(segments) = Len(trim_specs)
           /\ \A k \in 1..Len(segments) :
                  /\ segments[k].index = k
                  /\ segments[k].frames = trim_specs[k]
                  /\ Len(segments[k].start_tot) = 3
                  /\ Len(segments[k].end_tot) = 3

\* A run asked for a JSON document found frames but no TOT and wrote nothing.
C13_Witness ==
    /\ pc = "done" /\ output /\ Len(video_index) > 0
    /\ outcome = Some("tot_not_found") /\ written = None

(***************************************************************************)
(* One scan of find_tot_near_frame over files that also hold packets that  *)
(* do not decode.                                                          *)
(***************************************************************************)
MaxScanLen == 3

ScanPackets ==
    { Video(257, 0), Video(257, 90000), Video(257, 180000), TotA, TotB,
      Tot(FALSE, TOT_TABLE_ID, 58849, 9, 0, 7),
      Tot(TRUE, 112, 58849, 9, 0, 7),
      Tot(TRUE, TOT_TABLE_ID, 58849, 36, 0, 7),
      TotAt(TRUE, Some(176), 0, TOT_TABLE_ID, 58849, 9, 0, 7),
      Pes(SYNC_BYTE, 257, FALSE, None, TRUE, 2, 5, 270000, 0),
      Pes(SYNC_BYTE, 257, TRUE, None, TRUE, 0, 0, 270000, 0),
      Pes(BAD_SYNC, 257, TRUE, None, TRUE, 2, 5, 270000, 0),
      Video(258, 270000), Pat101 }

ScanTargets == {90000, 180000}

ScanInit ==
    /\ pc = "tot_query"
    /\ stream \in SeqsUpTo(ScanPackets, MaxScanLen)
    /\ avs = None /\ output = FALSE
    /\ video_pid = Some(257)
    /\ queries \in { << t >> : t \in ScanTargets }
    /\ answers = << >>
    /\ target_pts = queries[1]
    /\ search_range \in {SmallRange, DEFAULT_SEARCH_RANGE}
    /\ i = 1
    /\ found_target = FALSE /\ packets_since_target = 0
    /\ last_video_pts = None /\ tot_time = None /\ tot_video_pts = None
    /\ tot_ret = None /\ tot_how = "" /\ tot_at = 0 /\ tot_scans = 1
    /\ video_index = << >> /\ service_id = None
    /\ pat_collector = NewCollector /\ pat_feeds = 0
    /\ MainIdle /\ FnIdle /\ ColIdle

ScanNext == TotScanPacket \/ TotScanEof \/ CorrReturned

SpecScan == ScanInit /\ [][ScanNext]_vars

\* The last packet the scan has read.
LastRead ==
    IF pc \in ScanPcs THEN i - 1
    ELSE IF i > Len(stream) THEN Len(stream) ELSE i

\* The positions of the frames (PTS-bearing start-of-payload packets of the
\* video PID) whose PTS is at or past the target.
AtOrPast == { k \in 1..Len(stream) : /\ Framed(stream[k], Val(video_pid))
                                      /\ stream[k].pts >= target_pts }

\* The first of them (0: there is none).
FlagPos == IF AtOrPast = {} THEN 0
           ELSE CHOOSE k \in AtOrPast : \A j \in AtOrPast : k <= j

\* Whether descriptor d is a block that does not start with the sync byte.
Skipped(d) == d.k = "pes" /\ d.sync # SYNC_BYTE

\* The packets examined (read and not skipped) at positions a..b.
Examined(a, b) == Cardinality({ k \in a..b : ~Skipped(stream[k]) })

\* C14: once the target-found flag is set, the scan returns after examining
\* at most search_range packets beyond the packet that set the flag; blocks
\* skipped for their first byte are not examined.
C14_Window ==
    found_target =>
        /\ FlagPos # 0 /\ FlagPos <= LastRead
        /\ Examined(FlagPos + 1, LastRead) <= search_range

\* A scan ended on the exhausted window two blocks after the flag was set,
\* one of the two having been skipped.
C14_Witness ==
    /\ pc = "answered" /\ tot_how = "window"
    /\ LastRead = FlagPos + 2
    /\ Skipped(stream[FlagPos + 1])

\* The greatest element of a non-empty set of positions.
Last(S) == CHOOSE k \in S : \A j \in S : j <= k

\* The positions before p of the TOT packets that decode.
TotsBefore(p) ==
    { k \in 1..(p - 1) : /\ stream[k].k \in {"tot", "totx"}
                          /\ parse_tot(Bytes(stream[k])) # None }

\* The positions before p of the frames of the video PID.
FramesBefore(p) ==
    { k \in 1..(p - 1) : Framed(stream[k], Val(video_pid)) }

\* C15: when a TOT was decoded after some video PTS and before the first
\* video packet whose PTS >= target, the scan stops at that video packet and
\* returns the time of the last TOT decoded before it plus (target - anchor
\* PTS of that TOT) ticks; no later packet has a part in the result.
C15_NearestPreceding ==
    (/\ pc = "answered"
     /\ FlagPos # 0
     /\ TotsBefore(FlagPos) # {}
     /\ FramesBefore(Last(TotsBefore(FlagPos))) # {})
    => LET at == Last(TotsBefore(FlagPos))
           anchor == stream[Last(FramesBefore(at))].pts
           time == Val(parse_tot(Bytes(stream[at])))
       IN  /\ answers[1].read = FlagPos
           /\ answers[1].ret =
                  Some(PlusSeconds(time, (target_pts - anchor) \div CLOCK_FREQ))

\* A packet on the TOT PID that does not decode: no payload_unit_start, a
\* table id other than 0x73, a section cut short, or an hour of 24.
TotFails(d) ==
    /\ d.k \in {"tot", "totx"}
    /\ \/ ~d.pusi
       \/ d.tid # TOT_TABLE_ID
       \/ BcdValue(d.h) >= 24
       \/ (d.k = "totx" /\ TotOffset(d) + 8 > TS_PACKET_SIZE)

\* A packet on the video PID without payload_unit_start or without a PTS.
VideoFails(d) ==
    /\ d.k = "pes" /\ d.sync = SYNC_BYTE /\ d.pid = Val(video_pid)
    /\ ~Framed(d, Val(video_pid))

\* A packet on a PID that is neither the video PID nor the TOT PID.
OtherPid(d) ==
    \/ d.k = "pat"
    \/ (d.k = "pes" /\ d.sync = SYNC_BYTE /\ d.pid # Val(video_pid))

\* C16: in find_tot_near_frame a TOT-PID packet that does not decode leaves
\* the latest TOT time and its anchor PTS unchanged; a video-PID packet
\* without payload_unit_start or without a decodable PTS leaves last_video_pts
\* and the target-found flag unchanged; a packet of another PID changes none
\* of them; and a packet that does decode updates them from the state the
\* failed packets left untouched.
C16_FailedDecode ==
    [][(pc \in ScanPcs /\ i >= 1 /\ i <= Len(stream)) =>
         LET d == stream[i]
             keepTot == tot_time' = tot_time /\ tot_video_pts' = tot_video_pts
             keepVideo == /\ last_video_pts' = last_video_pts
                          /\ found_target' = found_target
         IN  /\ TotFails(d) => (keepTot /\ keepVideo)
             /\ VideoFails(d) => (keepTot /\ keepVideo)
             /\ OtherPid(d) => (keepTot /\ keepVideo)
             /\ (d.k \in {"tot", "totx"} /\ ~TotFails(d)) =>
                    /\ tot_time' = parse_tot(Bytes(d))
                    /\ tot_video_pts' = last_video_pts
                    /\ keepVideo
             /\ Framed(d, Val(video_pid)) =>
                    /\ last_video_pts' = Some(d.pts)
                    /\ found_target' = (found_target \/ d.pts >= target_pts)
                    /\ keepTot]_vars

\* A TOT with an anchor was decoded, then a TOT with another table id was
\* read, and the scan ended with the first TOT and its anchor.
C16_Witness ==
    /\ pc = "answered" /\ Len(stream) = 3
    /\ Framed(stream[1], Val(video_pid))
    /\ stream[2] = TotA
    /\ stream[3] = Tot(TRUE, 112, 58849, 9, 0, 7)
    /\ tot_at = 2 /\ tot_time = parse_tot(Bytes(TotA))
    /\ tot_video_pts = Some(stream[1].pts)
    /\ answers[1].read = 3

\* The positions of the frames of the video PID, and the position of the
\* n-th of them in arrival order.
FramePositions == { k \in 1..Len(stream) : Framed(stream[k], Val(video_pid)) }
FramePos(n) ==
    CHOOSE k \in FramePositions :
        Cardinality({ j \in FramePositions : j <= k }) = n

\* C19: for every entry n of the frame index, a scan whose target is that
\* entry's PTS sets the target-found flag at the packet that produced the
\* entry (the n-th frame in arrival order) and at no earlier packet, also
\* when the PTS values do not increase in arrival order.
C19_TargetPosition ==
    [][(pc \in ScanPcs /\ ~found_target /\ found_target') =>
         \A n \in 1..Cardinality(FramePositions) :
             stream[FramePos(n)].pts = target_pts => i = FramePos(n)]_vars

\* C17: every section add_packet returns has the length its own header
\* declares, ((section[1] & 0x0F) << 8 | section[2]) + 3; a length computed
\* for an earlier section never cuts a later one.
C17_OwnLength ==
    \A n \in 1..Len(returned) :
        returned[n] # None =>
            /\ Len(Val(returned[n])) >= 3
            /\ Len(Val(returned[n])) = DeclaredLen(Val(returned[n]))

\* The position of the last start-of-payload packet among the first n fed
\* (0: there is none).
LastStart(n) ==
    LET S == { k \in 1..n : fed[k].pusi }
    IN  IF S = {} THEN 0 ELSE CHOOSE k \in S : \A j \in S : j <= k

RECURSIVE DeliveredFrom(_, _)
\* The section bytes delivered by the packets at positions p..n.
DeliveredFrom(p, n) ==
    IF n < p THEN << >> ELSE DeliveredFrom(p, n - 1) \o SecData(fed[n])

\* C18: (1) after add_packet returned a section, the packets without
\* payload_unit_start that follow return nothing, so at most one section is
\* returned between two start-of-payload packets; (2) a returned section
\* holds only bytes received since its own start-of-payload packet; (3) a
\* fresh collector returns nothing before its first start-of-payload packet.
C18_Protocol ==
    /\ \A n \in 1..Len(returned) :
          returned[n] # None =>
              LET p == LastStart(n)
                  got == DeliveredFrom(p, n)
              IN  /\ p # 0
                  /\ \A m \in p..(n - 1) : returned[m] = None
                  /\ Len(Val(returned[n])) <= Len(got)
                  /\ Val(returned[n]) = SliceTo(got, Len(Val(returned[n])))
    /\ (returned # << >> /\ returned[Len(returned)] # None)
          => ~pat_collector.collecting

\* A start packet left the section incomplete, the continuation packet
\* completed it, and the continuation packet after that returned nothing.
C18_Witness ==
    /\ Len(fed) = 3 /\ fed[1].pusi /\ ~fed[2].pusi /\ ~fed[3].pusi
    /\ returned[1] = None /\ returned[2] # None /\ returned[3] = None

====
